---- MODULE Spec2Model ----
(***************************************************************************)
(* Model of the PSG_IQ browser client:                                     *)
(*   - NetworkQualityMonitor  (network-monitor script, src/unnamed/part_000)*)
(*   - SimpleConfer            (src/static/js/main.js)                      *)
(*                                                                         *)
(* JavaScript runs one task at a time; every action below is one task of   *)
(* the event loop (a click handler, a socket event, a timer callback, the  *)
(* continuation of an async function after an await on a browser promise). *)
(* Object references are numbered from 1; 0 stands for null.               *)
(***************************************************************************)
EXTENDS Integers, Sequences, FiniteSets

VARIABLES
    pcState,          \* RTCPeerConnection objects created so far: connectionState of each
    monitors,         \* NetworkQualityMonitor objects created so far (their fields)
    timers,           \* active setInterval timers: [id, mon] (mon = the callback's `this`)
    timerSeq,         \* last handle returned by setInterval
    ticks,            \* interval callbacks fired so far, with the stage each has reached
    emitted,          \* messages passed to socket.emit, in order
    uncaught,         \* places from which an exception escaped its handler
    room,             \* value of the roomInput field
    peerConnection,   \* SimpleConfer.peerConnection
    networkMonitor,   \* SimpleConfer.networkMonitor
    isLowDataMode,    \* SimpleConfer.isLowDataMode
    tasks,            \* startCall / handleOffer invocations and the await each is suspended at
    lastStatus,       \* text of the newest entry of statusMessages
    qualityIcon,      \* textContent of #qualityIcon
    qualityText,      \* textContent of #qualityText: [label, recommendation]
    networkStatus,    \* className of #networkStatus
    packetLossElement,\* textContent of #packetLoss: the number shown
    rttElement,       \* textContent of #rtt: the number shown
    networkLog,       \* textContent of #networkLog: entries and line breaks
    logged,           \* entries appended to networkLog so far (an entry is named by its rank)
    lastEvent,        \* the last quality_update delivered and whether a listener threw
    snapshot,         \* an RTCStatsReport handed to analyzeStats: its reports, in order
    metrics,          \* what analyzeStats returned for it
    userMedia,        \* the getUserMedia() request of init(): pending, granted or denied
    localStream,      \* SimpleConfer.localStream
    audioTrackEnabled,\* enabled of the audio track of the local stream
    videoTrackEnabled,\* enabled of the video track of the local stream
    isAudioMuted,     \* SimpleConfer.isAudioMuted
    isVideoStopped,   \* SimpleConfer.isVideoStopped
    lastOp            \* last operation invoked from outside (with a bit flipped by each call)

uiVars == <<qualityIcon, qualityText, networkStatus, packetLossElement, rttElement,
            networkLog, logged, lastEvent>>

statVars == <<snapshot, metrics>>

mediaVars == <<userMedia, localStream, audioTrackEnabled, videoTrackEnabled,
               isAudioMuted, isVideoStopped>>

vars == <<pcState, monitors, timers, timerSeq, ticks, emitted, uncaught, room,
          peerConnection, networkMonitor, isLowDataMode, tasks, lastStatus, lastOp,
          uiVars, statVars, mediaVars>>

\* everything but the record of the last call
progVars == <<pcState, monitors, timers, timerSeq, ticks, emitted, uncaught, room,
              peerConnection, networkMonitor, isLowDataMode, tasks, lastStatus,
              uiVars, statVars, mediaVars>>

appVars == <<peerConnection, networkMonitor, isLowDataMode, tasks, lastStatus>>

(***************************************************************************)
(* Bounds of the model.                                                    *)
(***************************************************************************)
MaxTimers == 2        \* setInterval calls explored
MaxTicks  == 2        \* interval callbacks explored
MaxCalls  == 2        \* startCall / handleOffer invocations explored
MaxRun    == 2        \* repetitions of one call in a row that are told apart
MaxToggles == 2       \* clicks on lowDataMode explored

Null == 0

\* RTCPeerConnectionState
ConnStates == {"new", "connecting", "connected", "disconnected", "failed", "closed"}

\* values the user can leave in roomInput ("" is the empty field)
RoomValues == {"", "r1"}

\* the media fields after the constructor: init() has asked for the camera and
\* the microphone and the user has not answered yet; a track is created enabled
InitMedia ==
    /\ userMedia = "pending"
    /\ localStream = Null
    /\ audioTrackEnabled = TRUE
    /\ videoTrackEnabled = TRUE
    /\ isAudioMuted = FALSE
    /\ isVideoStopped = FALSE

(***************************************************************************)
(* NetworkQualityMonitor                                                   *)
(***************************************************************************)

\* constructor: the fields of a new monitor
NewMonitor(pc) ==
    [peerConnection |-> pc, isMonitoring |-> FALSE, monitoringInterval |-> Null]

\* the timers of monitor m that are still active
TimersOf(m) == {t \in timers : t.mon = m}

StartMonitoringNoGuard(ms, tm, seq, m) ==
    [monitors |-> [ms EXCEPT ![m].isMonitoring = TRUE,
                             ![m].monitoringInterval = seq + 1],
     timers   |-> tm \cup {[id |-> seq + 1, mon |-> m]},
     timerSeq |-> seq + 1]

\* startMonitoring(): the monitors, timers and handle counter it leaves
StartMonitoring(ms, tm, seq, m) ==
    IF ms[m].isMonitoring
    THEN [monitors |-> ms, timers |-> tm, timerSeq |-> seq]
    ELSE [monitors |-> [ms EXCEPT ![m].isMonitoring = TRUE,
                                  ![m].monitoringInterval = seq + 1],
          timers   |-> tm \cup {[id |-> seq + 1, mon |-> m]},
          timerSeq |-> seq + 1]

StopMonitoringKeepsTimer(ms, tm, m) ==
    IF ~ms[m].isMonitoring
    THEN [monitors |-> ms, timers |-> tm]
    ELSE [monitors |-> [ms EXCEPT ![m].isMonitoring = FALSE,
                                  ![m].monitoringInterval = Null],
          timers   |-> tm]

StopMonitoringKeepsFlag(ms, tm, m) ==
    IF ~ms[m].isMonitoring
    THEN [monitors |-> ms, timers |-> tm]
    ELSE [monitors |-> [ms EXCEPT ![m].monitoringInterval = Null],
          timers   |-> {t \in tm : t.id # ms[m].monitoringInterval}]

\* stopMonitoring(): the monitors and timers it leaves
StopMonitoring(ms, tm, m) ==
    IF ~ms[m].isMonitoring
    THEN [monitors |-> ms, timers |-> tm]
    ELSE IF ms[m].monitoringInterval # Null
         THEN [monitors |-> [ms EXCEPT ![m].isMonitoring = FALSE,
                                       ![m].monitoringInterval = Null],
               timers   |-> {t \in tm : t.id # ms[m].monitoringInterval}]
         ELSE [monitors |-> [ms EXCEPT ![m].isMonitoring = FALSE],
               timers   |-> tm]

TickConditionIgnoresState(ms, ps, m) ==
    ms[m].peerConnection # Null

TickConditionExclusive(ms, ps, m) ==
    /\ ms[m].peerConnection # Null
    /\ ps[ms[m].peerConnection] = "connected"
    /\ \A k \in DOMAIN ticks : ticks[k].mon = m => ticks[k].stage # "fetching"

\* the condition of the interval callback
TickCondition(ms, ps, m) ==
    /\ ms[m].peerConnection # Null
    /\ ps[ms[m].peerConnection] = "connected"

\* getCurrentRoom()
GetCurrentRoom == IF room = "" THEN "default" ELSE room

Msg(type, r, tick, enabled) ==
    [type |-> type, room |-> r, tick |-> tick, enabled |-> enabled]

NetworkStatsMsgDefaultRoom(k) == Msg("network_stats", "default", k, FALSE)

\* the report collectAndSendStats emits for tick k
NetworkStatsMsg(k) == Msg("network_stats", GetCurrentRoom, k, FALSE)

CatchTickErrorStopsLoop(ms, tm, unc, m) ==
    [monitors |-> [ms EXCEPT ![m].isMonitoring = FALSE],
     timers   |-> {t \in tm : t.mon # m},
     uncaught |-> unc \cup {"tick"}]

\* the catch block of collectAndSendStats: the error is logged and dropped
CatchTickError(ms, tm, unc, m) ==
    [monitors |-> ms, timers |-> tm, uncaught |-> unc]

(***************************************************************************)
(* Operations on a monitor, called directly (the monitor's own contract).  *)
(***************************************************************************)
\* the record of a call of operation name on object m
Called(name, m) ==
    [name |-> name, mon |-> m, flip |-> 1 - lastOp.flip,
     run  |-> IF lastOp.name = name /\ lastOp.mon = m
              THEN (IF lastOp.run < MaxRun THEN lastOp.run + 1 ELSE MaxRun)
              ELSE 1]

CallStartMonitoring(m) ==
    /\ m \in DOMAIN monitors
    /\ timerSeq < MaxTimers
    /\ LET r == StartMonitoring(monitors, timers, timerSeq, m)
       IN  /\ monitors' = r.monitors
           /\ timers' = r.timers
           /\ timerSeq' = r.timerSeq
    /\ lastOp' = Called("startMonitoring", m)
    /\ UNCHANGED <<mediaVars, statVars, uiVars, pcState, ticks, emitted, uncaught, room, appVars>>

CallStopMonitoring(m) ==
    /\ m \in DOMAIN monitors
    /\ LET r == StopMonitoring(monitors, timers, m)
       IN  /\ monitors' = r.monitors
           /\ timers' = r.timers
    /\ lastOp' = Called("stopMonitoring", m)
    /\ UNCHANGED <<mediaVars, statVars, uiVars, pcState, timerSeq, ticks, emitted, uncaught, room, appVars>>

\* the interval callback of timer t starts
TimerFires(t) ==
    /\ t \in timers
    /\ Len(ticks) < MaxTicks
    /\ ticks' = Append(ticks,
            [mon |-> t.mon, timer |-> t.id,
             conn |-> IF monitors[t.mon].peerConnection = Null THEN "null"
                      ELSE pcState[monitors[t.mon].peerConnection],
             stage |-> IF TickCondition(monitors, pcState, t.mon)
                       THEN "fetching" ELSE "skipped"])
    /\ UNCHANGED <<mediaVars, statVars, uiVars, pcState, monitors, timers, timerSeq, emitted, uncaught, room,
                   appVars, lastOp>>

SendStatsWhileMonitoring(ms, em, k) ==
    IF ms[ticks[k].mon].isMonitoring THEN Append(em, NetworkStatsMsg(k)) ELSE em

\* collectAndSendStats after its await (lines 49-57): analyzeStats returns an
\* object, so `if (networkMetrics)` always passes and the report is emitted
SendStats(ms, em, k) == Append(em, NetworkStatsMsg(k))

\* collectAndSendStats of tick k: getStats() resolved
StatsResolved(k) ==
    /\ k \in DOMAIN ticks
    /\ ticks[k].stage = "fetching"
    /\ emitted' = SendStats(monitors, emitted, k)
    /\ ticks' = [ticks EXCEPT ![k].stage = "sent"]
    /\ UNCHANGED <<mediaVars, statVars, uiVars, pcState, monitors, timers, timerSeq, uncaught, room, appVars, lastOp>>

\* collectAndSendStats of tick k: getStats() rejected
StatsRejected(k) ==
    /\ k \in DOMAIN ticks
    /\ ticks[k].stage = "fetching"
    /\ LET r == CatchTickError(monitors, timers, uncaught, ticks[k].mon)
       IN  /\ monitors' = r.monitors
           /\ timers' = r.timers
           /\ uncaught' = r.uncaught
    /\ ticks' = [ticks EXCEPT ![k].stage = "failed"]
    /\ UNCHANGED <<mediaVars, statVars, uiVars, pcState, timerSeq, emitted, room, appVars, lastOp>>

\* the browser moves an open connection to another state
ConnectionStateChange(p, s) ==
    /\ p \in DOMAIN pcState
    /\ pcState[p] # "closed"
    /\ s \in ConnStates \ {"closed", pcState[p]}
    /\ pcState' = [pcState EXCEPT ![p] = s]
    /\ UNCHANGED <<mediaVars, statVars, uiVars, monitors, timers, timerSeq, ticks, emitted, uncaught, room,
                   appVars, lastOp>>

\* the user edits roomInput without committing the change
TypeRoom(r) ==
    /\ r \in RoomValues
    /\ r # room
    /\ room' = r
    /\ UNCHANGED <<mediaVars, statVars, uiVars, pcState, monitors, timers, timerSeq, ticks, emitted, uncaught,
                   appVars, lastOp>>

(***************************************************************************)
(* analyzeStats(stats)                                                     *)
(*                                                                         *)
(* A snapshot is the sequence of reports stats.forEach visits.  Counters   *)
(* are integers: packets and bytes as they are, jitter in 1e-5 s,          *)
(* currentRoundTripTime in 1e-4 s.  NoCounter stands for a counter the     *)
(* report does not have (undefined).  Results are integers too:            *)
(* packet_loss in tenths of a percent, jitter in tenths of a millisecond,  *)
(* rtt in milliseconds.  Arithmetic is exact (no floating point error).    *)
(***************************************************************************)
MaxReports == 3       \* reports in a snapshot

NoCounter == -999

Report(type, mediaType, state, nominated, lost, received, jitter, bytesIn, bytesOut, crtt) ==
    [type |-> type, mediaType |-> mediaType, state |-> state, nominated |-> nominated,
     packetsLost |-> lost, packetsReceived |-> received, jitter |-> jitter,
     bytesReceived |-> bytesIn, bytesSent |-> bytesOut, currentRoundTripTime |-> crtt]

Inbound(mediaType, lost, received, jitter, bytesIn) ==
    Report("inbound-rtp", mediaType, "", FALSE, lost, received, jitter, bytesIn,
           NoCounter, NoCounter)

Outbound(mediaType, bytesOut) ==
    Report("outbound-rtp", mediaType, "", FALSE, NoCounter, NoCounter, NoCounter,
           NoCounter, bytesOut, NoCounter)

CandidatePair(state, nominated, crtt) ==
    Report("candidate-pair", "", state, nominated, NoCounter, NoCounter, NoCounter,
           NoCounter, NoCounter, crtt)

\* reports a snapshot is made of.  packetsLost can be negative: RFC 3550 counts
\* duplicates as received, and the browser reports the estimate as it is.
ReportValues ==
    { Inbound("video", 5, 95, 4560, 1000),
      Inbound("video", NoCounter, NoCounter, NoCounter, NoCounter),
      Inbound("video", NoCounter, 95, NoCounter, NoCounter),
      Inbound("video", 0, 0, NoCounter, NoCounter),
      Inbound("video", 1, 2, 4, NoCounter),
      Inbound("video", -1, 3, NoCounter, NoCounter),
      Inbound("audio", 50, 50, 9990, 7000),
      Outbound("video", 2000),
      Outbound("video", NoCounter),
      Outbound("audio", 8000),
      CandidatePair("succeeded", TRUE, 1230),
      CandidatePair("succeeded", FALSE, 4567),
      CandidatePair("succeeded", TRUE, NoCounter),
      CandidatePair("in-progress", FALSE, 9990) }

\* snapshots of at most n reports
SnapshotsUpTo(n) == UNION {[1..k -> ReportValues] : k \in 0..n}

\* Math.round(a / b) for b > 0: the nearest integer, halves upwards
RoundDiv(a, b) == (2 * a + b) \div (2 * b)

\* the locals of analyzeStats before the loop; packetLoss is kept as the
\* fraction lost / total
InitialLocals ==
    [lost |-> 0, total |-> 1, rtt |-> 0, jitter |-> 0, bytesReceived |-> 0, bytesSent |-> 0]

VisitReportAnyMedia(a, r) ==
    LET inb == r.type = "inbound-rtp"
        out == r.type = "outbound-rtp"
        cp  == r.type = "candidate-pair" /\ r.state = "succeeded"
        tot == r.packetsReceived + r.packetsLost
        both == r.packetsLost # NoCounter /\ r.packetsReceived # NoCounter
    IN  [lost  |-> IF inb /\ both /\ tot > 0 THEN r.packetsLost ELSE a.lost,
         total |-> IF inb /\ both /\ tot > 0 THEN tot ELSE a.total,
         jitter |-> IF inb /\ r.jitter # NoCounter THEN r.jitter ELSE a.jitter,
         bytesReceived |-> IF inb /\ r.bytesReceived # NoCounter
                           THEN r.bytesReceived ELSE a.bytesReceived,
         bytesSent |-> IF out /\ r.bytesSent # NoCounter THEN r.bytesSent ELSE a.bytesSent,
         rtt |-> IF cp /\ r.currentRoundTripTime # NoCounter
                 THEN r.currentRoundTripTime ELSE a.rtt]

\* the body of stats.forEach: the locals after report r
VisitReport(a, r) ==
    LET inb == r.type = "inbound-rtp" /\ r.mediaType = "video"
        out == r.type = "outbound-rtp" /\ r.mediaType = "video"
        cp  == r.type = "candidate-pair" /\ r.state = "succeeded"
        tot == r.packetsReceived + r.packetsLost
        both == r.packetsLost # NoCounter /\ r.packetsReceived # NoCounter
    IN  [lost  |-> IF inb /\ both /\ tot > 0 THEN r.packetsLost ELSE a.lost,
         total |-> IF inb /\ both /\ tot > 0 THEN tot ELSE a.total,
         jitter |-> IF inb /\ r.jitter # NoCounter THEN r.jitter ELSE a.jitter,
         bytesReceived |-> IF inb /\ r.bytesReceived # NoCounter
                           THEN r.bytesReceived ELSE a.bytesReceived,
         bytesSent |-> IF out /\ r.bytesSent # NoCounter THEN r.bytesSent ELSE a.bytesSent,
         rtt |-> IF cp /\ r.currentRoundTripTime # NoCounter
                 THEN r.currentRoundTripTime ELSE a.rtt]

RECURSIVE ForEach(_, _)
\* stats.forEach over the reports of s, from locals a
ForEach(a, s) == IF s = <<>> THEN a ELSE ForEach(VisitReport(a, Head(s)), Tail(s))

\* the object analyzeStats returns
AnalyzeStats(s) ==
    LET a == ForEach(InitialLocals, s)
    IN  [done |-> TRUE,
         packet_loss |-> RoundDiv(a.lost * 1000, a.total),
         rtt |-> RoundDiv(a.rtt, 10),
         jitter |-> RoundDiv(a.jitter, 10),
         bytes_received |-> a.bytesReceived,
         bytes_sent |-> a.bytesSent]

NoMetrics ==
    [done |-> FALSE, packet_loss |-> 0, rtt |-> 0, jitter |-> 0,
     bytes_received |-> 0, bytes_sent |-> 0]

\* analyzeStats is called on the snapshot
Analyze ==
    /\ ~metrics.done
    /\ metrics' = AnalyzeStats(snapshot)
    /\ UNCHANGED <<mediaVars, snapshot, uiVars, pcState, monitors, timers, timerSeq, ticks, emitted,
                   uncaught, room, appVars, lastOp>>

(***************************************************************************)
(* The quality_update listener: updateNetworkUI, then logNetworkEvent.     *)
(*                                                                         *)
(* JavaScript values: Undefined stands for an absent field, NotAString for *)
(* a level that is not a string; the number -1 stands for an absent number.*)
(* packet_loss is counted in hundredths of a percent.                      *)
(***************************************************************************)
MaxLogLines == 50     \* `lines.length > 50`, `lines.slice(-50)`
MaxLogged   == 52     \* log entries explored

Undefined  == "<undefined>"
NotAString == "<number>"
Absent     == -1

\* the own properties of qualityConfig
QualityConfig ==
    [good   |-> [icon |-> "green",  text |-> "Good Connection",     class |-> "quality-good"],
     medium |-> [icon |-> "yellow", text |-> "Moderate Connection", class |-> "quality-medium"],
     poor   |-> [icon |-> "red",    text |-> "Poor Connection",     class |-> "quality-poor"]]

\* property names every object inherits from Object.prototype (two of them)
InheritedKeys == {"constructor", "toString"}

\* what reading .icon, .text and .class of an inherited function gives, once
\* assigned to textContent (undefined -> "") or put in a template ("undefined")
InheritedValue == [icon |-> "", text |-> "undefined", class |-> "undefined"]

\* levels an event can carry
LevelValues == {"good", "medium", "poor", "excellent", "constructor", Undefined, NotAString}

\* stats an event can carry: absent, empty, or with both numbers
StatsValues ==
    { [present |-> FALSE, packet_loss |-> Absent, rtt |-> Absent],
      [present |-> TRUE,  packet_loss |-> Absent, rtt |-> Absent],
      [present |-> TRUE,  packet_loss |-> 0,      rtt |-> 0],
      [present |-> TRUE,  packet_loss |-> 512,    rtt |-> 123] }

EventValues == [level : LevelValues, stats : StatsValues, recommendation : {"ok"}]

\* `qualityConfig[level] || qualityConfig.good`
ConfigFor(level) ==
    IF level \in DOMAIN QualityConfig THEN QualityConfig[level]
    ELSE IF level \in InheritedKeys THEN InheritedValue
    ELSE QualityConfig.good

\* Number.prototype.toFixed(1) of h hundredths: the tenths shown
ToFixed1(h) == (h + 5) \div 10

\* `stats.packet_loss?.toFixed(1) || 0`: [tenths shown, whether a decimal is shown]
PacketLossShown(st) ==
    IF st.packet_loss = Absent THEN <<0, FALSE>> ELSE <<ToFixed1(st.packet_loss), TRUE>>

\* `stats.rtt || 0`
RttShown(st) == IF st.rtt = Absent THEN 0 ELSE st.rtt

\* the elements the listener writes
Dom(icon, text, status, loss, rtt, log, n) ==
    [qualityIcon |-> icon, qualityText |-> text, networkStatus |-> status,
     packetLossElement |-> loss, rttElement |-> rtt, networkLog |-> log, logged |-> n]

\* updateNetworkUI(data): the elements it leaves
UpdateNetworkUI(d, data) ==
    LET config == ConfigFor(data.level)
    IN  [d EXCEPT !.qualityIcon = config.icon,
                  !.qualityText = [label |-> config.text,
                                   recommendation |-> data.recommendation],
                  !.networkStatus = <<"network-status", config.class>>,
                  !.packetLossElement = IF data.stats.present
                                        THEN PacketLossShown(data.stats) ELSE @,
                  !.rttElement = IF data.stats.present THEN RttShown(data.stats) ELSE @]

NL == 0   \* the line break in a text; an entry is a number from 1

RECURSIVE Split(_)
\* String.prototype.split('\n'): the lines of a text
Split(t) ==
    IF \A i \in DOMAIN t : t[i] # NL THEN <<t>>
    ELSE LET i == CHOOSE i \in DOMAIN t :
                      t[i] = NL /\ \A j \in 1..(i - 1) : t[j] # NL
         IN  <<SubSeq(t, 1, i - 1)>> \o Split(SubSeq(t, i + 1, Len(t)))

RECURSIVE Join(_)
\* Array.prototype.join('\n')
Join(lines) ==
    IF Len(lines) = 0 THEN <<>>
    ELSE IF Len(lines) = 1 THEN lines[1]
    ELSE lines[1] \o <<NL>> \o Join(Tail(lines))

\* Array.prototype.slice(-n)
SliceLast(lines, n) ==
    IF Len(lines) <= n THEN lines ELSE SubSeq(lines, Len(lines) - n + 1, Len(lines))

\* whether logNetworkEvent(data) throws a TypeError while it builds the entry:
\* data.level.toUpperCase() or data.stats.packet_loss
LogThrows(data) ==
    \/ data.level \in {Undefined, NotAString}
    \/ ~data.stats.present

\* "Keep only last 50 lines": the text left
KeepLastLines(text) ==
    LET lines == Split(text)
    IN  IF Len(lines) > MaxLogLines THEN Join(SliceLast(lines, MaxLogLines)) ELSE text

\* logNetworkEvent(data), when it does not throw: the elements it leaves
LogNetworkEvent(d, data) ==
    [d EXCEPT !.networkLog = KeepLastLines(d.networkLog \o <<d.logged + 1, NL>>),
              !.logged = d.logged + 1]

RECURSIVE Deliver(_, _, _)
\* socket.io calls the n listeners of quality_update in turn; a listener that
\* throws ends the delivery.  The result is [dom, threw].
Deliver(d, data, n) ==
    IF n = 0 THEN [dom |-> d, threw |-> FALSE]
    ELSE LET u == UpdateNetworkUI(d, data)
         IN  IF LogThrows(data)
             THEN [dom |-> u, threw |-> TRUE]
             ELSE Deliver(LogNetworkEvent(u, data), data, n - 1)

\* a reply the listener does not make
ListenerEmitsAck(em, data) == Append(em, Msg("quality_ack", GetCurrentRoom, 0, FALSE))

\* what the listener sends on the socket: the body of the callback (lines
\* 16-17) and the two methods it calls contain no socket.emit
ListenerEmits(em, data) == em

CurrentDom ==
    Dom(qualityIcon, qualityText, networkStatus, packetLossElement, rttElement,
        networkLog, logged)

\* the server sends quality_update with payload data; every monitor constructed
\* so far has registered one listener on the socket
QualityUpdate(data) ==
    /\ data \in EventValues
    /\ Len(monitors) > 0
    /\ logged + Len(monitors) <= MaxLogged
    /\ LET r == Deliver(CurrentDom, data, Len(monitors))
       IN  /\ qualityIcon' = r.dom.qualityIcon
           /\ qualityText' = r.dom.qualityText
           /\ networkStatus' = r.dom.networkStatus
           /\ packetLossElement' = r.dom.packetLossElement
           /\ rttElement' = r.dom.rttElement
           /\ networkLog' = r.dom.networkLog
           /\ logged' = r.dom.logged
           /\ lastEvent' = [data |-> data, threw |-> r.threw, delivered |-> TRUE]
           /\ uncaught' = IF r.threw THEN uncaught \cup {"quality_update"} ELSE uncaught
    /\ emitted' = ListenerEmits(emitted, data)
    /\ UNCHANGED <<mediaVars, statVars, pcState, monitors, timers, timerSeq, ticks, room,
                   appVars, lastOp>>

NoEvent ==
    [data |-> [level |-> Undefined,
               stats |-> [present |-> FALSE, packet_loss |-> Absent, rtt |-> Absent],
               recommendation |-> "ok"],
     threw |-> FALSE, delivered |-> FALSE]

\* the page as loaded: the indicator and the log are empty
InitPage ==
    /\ qualityIcon = ""
    /\ qualityText = [label |-> "", recommendation |-> ""]
    /\ networkStatus = <<"network-status", "">>
    /\ packetLossElement = <<0, FALSE>>
    /\ rttElement = 0
    /\ networkLog = <<>>
    /\ logged = 0
    /\ lastEvent = NoEvent

NoOp == [name |-> "none", mon |-> Null, flip |-> 0, run |-> 0]

\* one monitor constructed over one open connection (or over null)
InitMonitor ==
    /\ pcState = <<"new">>
    /\ \E pc \in {Null, 1} : monitors = <<NewMonitor(pc)>>
    /\ timers = {}
    /\ timerSeq = 0
    /\ ticks = <<>>
    /\ emitted = <<>>
    /\ uncaught = {}
    /\ room = ""
    /\ peerConnection = Null
    /\ networkMonitor = Null
    /\ isLowDataMode = FALSE
    /\ tasks = <<>>
    /\ lastStatus = ""
    /\ lastOp = NoOp
    /\ InitPage
    /\ snapshot = <<>>
    /\ metrics = NoMetrics
    /\ InitMedia

NextMonitor ==
    \/ \E m \in DOMAIN monitors : CallStartMonitoring(m)
    \/ \E m \in DOMAIN monitors : CallStopMonitoring(m)
    \/ \E t \in timers : TimerFires(t)
    \/ \E k \in DOMAIN ticks : StatsResolved(k)
    \/ \E k \in DOMAIN ticks : StatsRejected(k)
    \/ \E p \in DOMAIN pcState, s \in ConnStates : ConnectionStateChange(p, s)
    \/ \E r \in RoomValues : TypeRoom(r)

SpecMonitor == InitMonitor /\ [][NextMonitor]_vars

(***************************************************************************)
(* Claims about one monitor (checked under SpecMonitor).                   *)
(***************************************************************************)
\* this step is a call from outside of operation name
IsCall(name) == lastOp'.flip # lastOp.flip /\ lastOp'.name = name

\* C1: startMonitoring is idempotent.  After startMonitoring calls in a row
\* exactly one interval timer of the monitor is active, and a call on a monitor
\* that is already monitoring creates no timer and changes no state.
C1_StartIdempotent ==
    /\ [](lastOp.name = "startMonitoring" => Cardinality(TimersOf(lastOp.mon)) = 1)
    /\ [][(IsCall("startMonitoring") /\ monitors[lastOp'.mon].isMonitoring)
             => UNCHANGED progVars]_vars

\* two startMonitoring calls in a row have been made on a monitor
C1_Witness ==
    /\ lastOp.name = "startMonitoring"
    /\ lastOp.run = 2
    /\ Cardinality(TimersOf(lastOp.mon)) = 1

\* C2: a timer cancelled by stopMonitoring never fires again.  An interval
\* callback only ever starts for the timer its monitor currently holds, while
\* the monitor is monitoring; a monitoring monitor has exactly one active timer;
\* stopMonitoring on a stopped monitor changes nothing.
C2_NoResidualTimer ==
    /\ [][Len(ticks') = Len(ticks) + 1 =>
            LET k == ticks'[Len(ticks')]
            IN  /\ monitors[k.mon].isMonitoring
                /\ monitors[k.mon].monitoringInterval = k.timer]_vars
    /\ [](\A m \in DOMAIN monitors :
            monitors[m].isMonitoring => Cardinality(TimersOf(m)) = 1)
    /\ [][(IsCall("stopMonitoring") /\ ~monitors[lastOp'.mon].isMonitoring)
             => UNCHANGED progVars]_vars

\* a callback of the second timer of a monitor has started (stop, then start)
C2_Witness ==
    \E k \in DOMAIN ticks :
        /\ ticks[k].timer = 2
        /\ \E j \in 1..(k - 1) : ticks[j].timer = 1 /\ ticks[j].mon = ticks[k].mon

\* C3: isMonitoring is true exactly when monitoringInterval holds the handle of
\* an active timer of the monitor, and a monitor never owns two active timers.
C3_FlagAgreesWithTimer ==
    \A m \in DOMAIN monitors :
        /\ monitors[m].isMonitoring <=>
              (/\ monitors[m].monitoringInterval # Null
               /\ [id |-> monitors[m].monitoringInterval, mon |-> m] \in timers)
        /\ Cardinality(TimersOf(m)) <= 1

\* a monitor that was started, stopped and started again
C3_Witness ==
    \E m \in DOMAIN monitors :
        /\ monitors[m].isMonitoring
        /\ monitors[m].monitoringInterval = 2
        /\ lastOp.name = "startMonitoring"

\* network_stats messages emitted for tick k
ReportsOf(k) == {i \in DOMAIN emitted :
                    emitted[i].type = "network_stats" /\ emitted[i].tick = k}

\* C4: a tick reports iff the connection was 'connected' when it fired.  A tick
\* fired in any other state is skipped for good and nothing is ever emitted for
\* it; a tick fired while connected emits exactly one network_stats message once
\* its fetch has succeeded, and none before; the message carries the room that
\* is current when it is emitted.
C4_TickReportsIffConnected ==
    /\ [](\A k \in DOMAIN ticks :
            /\ (ticks[k].stage = "skipped") <=> (ticks[k].conn # "connected")
            /\ Cardinality(ReportsOf(k)) = (IF ticks[k].stage = "sent" THEN 1 ELSE 0))
    /\ [][Len(emitted') = Len(emitted) + 1 =>
            (emitted'[Len(emitted')].type = "network_stats"
                => emitted'[Len(emitted')].room = GetCurrentRoom)]_vars

\* one tick was skipped on a connection that was not connected and a later one,
\* fired while connected, has sent its report from a non-default room
C4_Witness ==
    \E j, k \in DOMAIN ticks :
        /\ j < k
        /\ ticks[j].stage = "skipped" /\ ticks[j].conn = "connecting"
        /\ ticks[k].stage = "sent"
        /\ \E i \in ReportsOf(k) : emitted[i].room = "r1"

\* C5: a failed tick is caught inside the tick.  The step in which a fetch fails
\* leaves the timers and every monitor's fields as they were and lets no
\* exception escape, so the timer still fires afterwards.
C5_TickFailureContained ==
    /\ [][\A k \in DOMAIN ticks :
            (ticks[k].stage = "fetching" /\ ticks'[k].stage = "failed")
                => /\ timers' = timers
                   /\ monitors' = monitors
                   /\ uncaught' = uncaught]_vars
    /\ []("tick" \notin uncaught)

\* after a failed tick the same timer has fired again and fetched a new sample
C5_Witness ==
    \E j, k \in DOMAIN ticks :
        /\ j < k
        /\ ticks[j].stage = "failed"
        /\ ticks[k].timer = ticks[j].timer
        /\ ticks[k].stage = "sent"

\* the ticks of monitor m whose getStats() is pending
InFlight(m) == {k \in DOMAIN ticks : ticks[k].mon = m /\ ticks[k].stage = "fetching"}

\* C15: stopMonitoring leaves the ticks already started as they are: a tick
\* that is fetching when the monitor is stopped can still complete, and when it
\* does it emits its report; a tick starts only from a timer that is active, so
\* after the stop none starts.
C15_StopSparesTickInFlight ==
    /\ [][IsCall("stopMonitoring") => ticks' = ticks /\ emitted' = emitted]_vars
    /\ [](\A k \in DOMAIN ticks : ticks[k].stage = "fetching" => ENABLED StatsResolved(k))
    /\ [][\A k \in DOMAIN ticks :
            (ticks[k].stage = "fetching" /\ ticks'[k].stage = "sent")
                => emitted' = Append(emitted, NetworkStatsMsg(k))]_vars
    /\ [][Len(ticks') > Len(ticks) =>
            /\ monitors[ticks'[Len(ticks')].mon].isMonitoring
            /\ \E t \in timers : t.id = ticks'[Len(ticks')].timer]_vars

\* the monitor has just been stopped, has no timer left, and a tick of it is
\* still fetching
C15_Witness ==
    /\ lastOp.name = "stopMonitoring"
    /\ ~monitors[lastOp.mon].isMonitoring
    /\ TimersOf(lastOp.mon) = {}
    /\ InFlight(lastOp.mon) # {}

\* C16: a tick that fires on a connected connection starts its fetch whether or
\* not earlier ticks of the same monitor are still fetching, and every tick in
\* flight can be the next to complete.
C16_TicksOverlap ==
    /\ [][Len(ticks') > Len(ticks) =>
            LET n == ticks'[Len(ticks')]
                pc == monitors[n.mon].peerConnection
            IN  (pc # Null /\ pcState[pc] = "connected") => n.stage = "fetching"]_vars
    /\ [](\A k \in DOMAIN ticks : ticks[k].stage = "fetching" =>
            ENABLED (StatsResolved(k) /\ emitted' = Append(emitted, NetworkStatsMsg(k))))

\* two ticks of one monitor were in flight together and the later one reported
\* first
C16_Witness ==
    \E j, k \in DOMAIN ticks, a, b \in DOMAIN emitted :
        /\ j < k
        /\ ticks[j].mon = ticks[k].mon
        /\ emitted[a].type = "network_stats" /\ emitted[a].tick = k
        /\ emitted[b].type = "network_stats" /\ emitted[b].tick = j
        /\ a < b

\* a monitor handed any snapshot of at most MaxReports reports
InitAnalyze ==
    /\ pcState = <<"new">>
    /\ monitors = <<NewMonitor(1)>>
    /\ timers = {}
    /\ timerSeq = 0
    /\ ticks = <<>>
    /\ emitted = <<>>
    /\ uncaught = {}
    /\ room = ""
    /\ peerConnection = Null
    /\ networkMonitor = Null
    /\ isLowDataMode = FALSE
    /\ tasks = <<>>
    /\ lastStatus = ""
    /\ lastOp = NoOp
    /\ InitPage
    /\ snapshot \in SnapshotsUpTo(MaxReports)
    /\ metrics = NoMetrics
    /\ InitMedia

NextAnalyze == Analyze

SpecAnalyze == InitAnalyze /\ [][NextAnalyze]_vars

(***************************************************************************)
(* Claims about analyzeStats (checked under SpecAnalyze).                  *)
(***************************************************************************)
\* the reports of the snapshot that satisfy a condition on their position
InboundVideo == {i \in DOMAIN snapshot :
                    snapshot[i].type = "inbound-rtp" /\ snapshot[i].mediaType = "video"}

OutboundVideo == {i \in DOMAIN snapshot :
                    snapshot[i].type = "outbound-rtp" /\ snapshot[i].mediaType = "video"}

SucceededPairs == {i \in DOMAIN snapshot :
                    snapshot[i].type = "candidate-pair" /\ snapshot[i].state = "succeeded"}

\* C12: a derived field whose counter is missing from the snapshot is 0: no
\* inbound video report with both packet counters gives packet_loss = 0, none
\* with jitter gives jitter = 0, no succeeded candidate pair with
\* currentRoundTripTime gives rtt = 0, missing byte counters give 0, and the
\* empty snapshot gives all zeros.
C12_MissingCountersGiveZero ==
    metrics.done =>
        /\ (\A i \in InboundVideo : snapshot[i].packetsLost = NoCounter
                                    \/ snapshot[i].packetsReceived = NoCounter)
              => metrics.packet_loss = 0
        /\ (\A i \in InboundVideo : snapshot[i].jitter = NoCounter)
              => metrics.jitter = 0
        /\ (\A i \in SucceededPairs : snapshot[i].currentRoundTripTime = NoCounter)
              => metrics.rtt = 0
        /\ (\A i \in InboundVideo : snapshot[i].bytesReceived = NoCounter)
              => metrics.bytes_received = 0
        /\ (\A i \in OutboundVideo : snapshot[i].bytesSent = NoCounter)
              => metrics.bytes_sent = 0
        /\ snapshot = <<>> =>
              metrics = [done |-> TRUE, packet_loss |-> 0, rtt |-> 0, jitter |-> 0,
                         bytes_received |-> 0, bytes_sent |-> 0]

\* a snapshot with an inbound video report without counters, an audio report
\* with counters and a candidate pair without a round trip time was analysed
C12_Witness ==
    /\ metrics.done
    /\ \E i \in InboundVideo : snapshot[i].packetsLost = NoCounter
                               /\ snapshot[i].jitter = NoCounter
    /\ \E i \in DOMAIN snapshot : snapshot[i].mediaType = "audio"
                                  /\ snapshot[i].type = "inbound-rtp"
    /\ \E i \in SucceededPairs : snapshot[i].currentRoundTripTime = NoCounter
    /\ metrics.packet_loss = 0 /\ metrics.jitter = 0 /\ metrics.rtt = 0

\* C13: packet_loss lies in [0, 100], and for a snapshot with one inbound video
\* report it is lost / (lost + received) * 100 rounded to one decimal when both
\* counters are there and their sum is positive, else 0.
C13_PacketLossInRange ==
    metrics.done =>
        /\ metrics.packet_loss >= 0
        /\ metrics.packet_loss <= 1000
        /\ \A i \in InboundVideo :
              InboundVideo = {i} =>
                 LET r == snapshot[i]
                 IN  metrics.packet_loss =
                       IF /\ r.packetsLost # NoCounter
                          /\ r.packetsReceived # NoCounter
                          /\ r.packetsLost + r.packetsReceived > 0
                       THEN RoundDiv(r.packetsLost * 1000,
                                     r.packetsLost + r.packetsReceived)
                       ELSE 0

\* succeeded candidate pairs that are the nominated (active) one
ActivePairs == {i \in SucceededPairs : snapshot[i].nominated}

\* C17: rtt is the current round trip time of the active candidate pair in
\* whole milliseconds, wherever that pair stands among the reports.
C17_RttOfActivePair ==
    metrics.done =>
        \A i \in ActivePairs :
            (ActivePairs = {i} /\ snapshot[i].currentRoundTripTime # NoCounter)
                => metrics.rtt = RoundDiv(snapshot[i].currentRoundTripTime, 10)

\* one monitor receiving quality_update events
NextReactor == \E data \in EventValues : QualityUpdate(data)

SpecReactor == InitMonitor /\ [][NextReactor]_vars

(***************************************************************************)
(* Claims about the listener (checked under SpecReactor).                  *)
(***************************************************************************)
IsEntry(x) == x # NL

\* the entries of a text, in order
EntriesOf(t) == SelectSeq(t, IsEntry)

\* C9: once more than 50 events have been logged, the log holds exactly the 50
\* most recent entries, oldest first.
C9_LogKeepsLast50 ==
    logged > MaxLogLines =>
        EntriesOf(networkLog) = [i \in 1..MaxLogLines |-> logged - MaxLogLines + i]

\* C10: an event whose level is a string other than good, medium and poor (and
\* whose other fields are all there) is handled without an exception and leaves
\* the indicator with the icon, label and style class of 'good'.
C10_UnknownLevelShowsGood ==
    (/\ lastEvent.delivered
     /\ lastEvent.data.level \notin {"good", "medium", "poor", Undefined, NotAString}
     /\ lastEvent.data.stats.present)
        => /\ ~lastEvent.threw
           /\ qualityIcon = QualityConfig.good.icon
           /\ qualityText.label = QualityConfig.good.text
           /\ networkStatus = <<"network-status", QualityConfig.good.class>>

\* C11: an event with an absent field (no level, or no stats, or stats without
\* packet_loss and rtt) is handled to the end by updateNetworkUI and
\* logNetworkEvent without an exception.
C11_AbsentFieldTolerated ==
    (/\ lastEvent.delivered
     /\ lastEvent.data.level # NotAString
     /\ \/ lastEvent.data.level = Undefined
        \/ ~lastEvent.data.stats.present
        \/ lastEvent.data.stats.packet_loss = Absent
        \/ lastEvent.data.stats.rtt = Absent)
        => ~lastEvent.threw

(***************************************************************************)
(* The listener beside a running monitor: startMonitoring, stopMonitoring  *)
(* and connection state changes interleave with the first events.          *)
(***************************************************************************)
MaxListened == 2      \* log entries explored beside a running monitor

QualityUpdateEarly(data) == logged < MaxListened /\ QualityUpdate(data)

NextListen ==
    \/ \E m \in DOMAIN monitors : CallStartMonitoring(m)
    \/ \E m \in DOMAIN monitors : CallStopMonitoring(m)
    \/ \E p \in DOMAIN pcState, s \in ConnStates : ConnectionStateChange(p, s)
    \/ \E data \in EventValues : QualityUpdateEarly(data)

SpecListen == InitMonitor /\ [][NextListen]_vars

\* C14: handling a quality_update event sends nothing on the socket and leaves
\* every monitor's isMonitoring and monitoringInterval, the active timers and
\* the state of every peer connection as they were.
C14_ListenerInitiatesNothing ==
    [][uiVars' # uiVars =>
          /\ emitted' = emitted
          /\ monitors' = monitors
          /\ timers' = timers
          /\ pcState' = pcState]_vars

\* an event has been logged while the monitor samples a connected connection
C14_Witness ==
    /\ lastEvent.delivered
    /\ logged > 0
    /\ \E m \in DOMAIN monitors :
          /\ monitors[m].isMonitoring
          /\ monitors[m].peerConnection # Null
          /\ pcState[monitors[m].peerConnection] = "connected"

(***************************************************************************)
(* SimpleConfer                                                           *)
(*                                                                         *)
(* startCall and handleOffer are async functions.  createPeerConnection is *)
(* async but awaits nothing, so `await this.createPeerConnection()` resumes*)
(* in a microtask of the task that made the call: no click, socket event or*)
(* timer runs in between, and the first action of either function runs up  *)
(* to its first await on a browser promise.  Each later await is a point   *)
(* where any other task can run before the function continues.  A task    *)
(* records the connection whose method returned the promise it awaits.     *)
(***************************************************************************)

\* joinRoom(): the message it emits
JoinRoomMsg == Msg("join_room", GetCurrentRoom, 0, FALSE)

StartNetworkMonitoringAlways(ms, tm, seq, nm, pc) ==
    IF pc # Null
    THEN LET m == Len(ms) + 1
             r == StartMonitoring(Append(ms, NewMonitor(pc)), tm, seq, m)
         IN  [monitors |-> r.monitors, timers |-> r.timers, timerSeq |-> r.timerSeq,
              networkMonitor |-> m]
    ELSE [monitors |-> ms, timers |-> tm, timerSeq |-> seq, networkMonitor |-> nm]

\* startNetworkMonitoring(): nm and pc are this.networkMonitor and this.peerConnection
StartNetworkMonitoring(ms, tm, seq, nm, pc) ==
    IF nm = Null /\ pc # Null
    THEN LET m == Len(ms) + 1
             r == StartMonitoring(Append(ms, NewMonitor(pc)), tm, seq, m)
         IN  [monitors |-> r.monitors, timers |-> r.timers, timerSeq |-> r.timerSeq,
              networkMonitor |-> m]
    ELSE [monitors |-> ms, timers |-> tm, timerSeq |-> seq, networkMonitor |-> nm]

StopNetworkMonitoringDropsOnly(ms, tm, nm) ==
    [monitors |-> ms, timers |-> tm, networkMonitor |-> Null]

\* endCall(), the block "Stop network monitoring"
StopNetworkMonitoring(ms, tm, nm) ==
    IF nm # Null
    THEN LET r == StopMonitoring(ms, tm, nm)
         IN  [monitors |-> r.monitors, timers |-> r.timers, networkMonitor |-> Null]
    ELSE [monitors |-> ms, timers |-> tm, networkMonitor |-> nm]

\* endCall(), the block "Close peer connection": the connection states it leaves
ClosePeerConnection(ps, pc) ==
    IF pc # Null THEN [ps EXCEPT ![pc] = "closed"] ELSE ps

\* createPeerConnection() followed by startNetworkMonitoring(), as both
\* startCall and handleOffer run them
ConnectAndMonitor ==
    LET p == Len(pcState) + 1
        r == StartNetworkMonitoring(monitors, timers, timerSeq, networkMonitor, p)
    IN  /\ pcState' = Append(pcState, "new")
        /\ peerConnection' = p
        /\ monitors' = r.monitors
        /\ timers' = r.timers
        /\ timerSeq' = r.timerSeq
        /\ networkMonitor' = r.networkMonitor

\* click on startCall: startCall() up to `await createOffer(...)`
StartCall ==
    /\ Len(tasks) < MaxCalls
    /\ emitted' = Append(emitted, JoinRoomMsg)
    /\ ConnectAndMonitor
    /\ tasks' = Append(tasks, [kind |-> "startCall", stage |-> "createOffer",
                                pc |-> peerConnection'])
    /\ lastStatus' = "Starting call..."
    /\ lastOp' = Called("startCall", Null)
    /\ UNCHANGED <<mediaVars, statVars, uiVars, ticks, uncaught, room, isLowDataMode>>

\* socket event 'offer': handleOffer() up to `await setRemoteDescription(...)`
HandleOffer ==
    /\ Len(tasks) < MaxCalls
    /\ ConnectAndMonitor
    /\ tasks' = Append(tasks, [kind |-> "handleOffer", stage |-> "setRemoteDescription",
                                pc |-> peerConnection'])
    /\ lastOp' = Called("handleOffer", Null)
    /\ UNCHANGED <<mediaVars, statVars, uiVars, ticks, emitted, uncaught, room, isLowDataMode, lastStatus>>

\* the await a task goes to when the promise it waits for resolves
NextStage(kind, stage) ==
    IF kind = "startCall"
    THEN (IF stage = "createOffer" THEN "setLocalDescription" ELSE "done")
    ELSE (IF stage = "setRemoteDescription" THEN "createAnswer"
          ELSE IF stage = "createAnswer" THEN "setLocalDescription"
          ELSE "done")

Suspended(i) == tasks[i].stage \notin {"done", "error"}

\* whether the promise task i awaits can settle: it was returned by a method of
\* connection tasks[i].pc, and the promises of a connection that has been
\* closed are never resolved nor rejected
CanSettle(ps, i) == ps[tasks[i].pc] # "closed"

\* the promise task i awaits resolves and the function runs to its next await
\* (a method call on this.peerConnection) or to its end
TaskResolved(i) ==
    /\ i \in DOMAIN tasks
    /\ Suspended(i)
    /\ CanSettle(pcState, i)
    /\ LET k  == tasks[i].kind
           nx == NextStage(k, tasks[i].stage)
       IN  IF nx = "done"
           THEN /\ tasks' = [tasks EXCEPT ![i].stage = "done"]
                /\ emitted' = Append(emitted,
                      Msg(IF k = "startCall" THEN "offer" ELSE "answer",
                          GetCurrentRoom, 0, FALSE))
                /\ lastStatus' = IF k = "startCall" THEN "Calling..." ELSE lastStatus
           ELSE IF peerConnection = Null
           THEN \* TypeError on this.peerConnection.<method>, caught by the function
                /\ tasks' = [tasks EXCEPT ![i].stage = "error"]
                /\ lastStatus' = IF k = "startCall" THEN "Error starting call"
                                 ELSE lastStatus
                /\ UNCHANGED emitted
           ELSE /\ tasks' = [tasks EXCEPT ![i].stage = nx, ![i].pc = peerConnection]
                /\ UNCHANGED <<emitted, lastStatus>>
    /\ UNCHANGED <<mediaVars, statVars, uiVars, pcState, monitors, timers, timerSeq, ticks, uncaught, room,
                   peerConnection, networkMonitor, isLowDataMode, lastOp>>

\* the promise task i awaits rejects: the function's catch block runs
TaskRejected(i) ==
    /\ i \in DOMAIN tasks
    /\ Suspended(i)
    /\ CanSettle(pcState, i)
    /\ tasks' = [tasks EXCEPT ![i].stage = "error"]
    /\ lastStatus' = IF tasks[i].kind = "startCall" THEN "Error starting call"
                     ELSE lastStatus
    /\ UNCHANGED <<mediaVars, statVars, uiVars, pcState, monitors, timers, timerSeq, ticks, emitted, uncaught, room,
                   peerConnection, networkMonitor, isLowDataMode, lastOp>>

\* the `enabled` property of the value getAudioTracks() / getVideoTracks()
\* returns: a new Array on every call, which has no such property (undefined)
TracksEnabled == [defined |-> FALSE, value |-> FALSE]

\* JavaScript `!v` of a property that may be undefined
NotOf(v) == IF v.defined THEN ~v.value ELSE TRUE

\* `tracks.enabled = v` on that array: it sets a property of the array, which
\* is then dropped; the result is the enabled flag of the track itself
AssignToTracks(trackEnabled, v) == trackEnabled

\* init(): getUserMedia() resolved
UserMediaGranted ==
    /\ userMedia = "pending"
    /\ userMedia' = "granted"
    /\ localStream' = 1
    /\ lastStatus' = "Ready to start call"
    /\ UNCHANGED <<audioTrackEnabled, videoTrackEnabled, isAudioMuted, isVideoStopped,
                   statVars, uiVars, pcState, monitors, timers, timerSeq, ticks, emitted,
                   uncaught, room, peerConnection, networkMonitor, isLowDataMode, tasks,
                   lastOp>>

\* init(): getUserMedia() rejected
UserMediaDenied ==
    /\ userMedia = "pending"
    /\ userMedia' = "denied"
    /\ lastStatus' = "Camera/microphone access denied. Please allow access and refresh."
    /\ UNCHANGED <<localStream, audioTrackEnabled, videoTrackEnabled, isAudioMuted,
                   isVideoStopped, statVars, uiVars, pcState, monitors, timers, timerSeq,
                   ticks, emitted, uncaught, room, peerConnection, networkMonitor,
                   isLowDataMode, tasks, lastOp>>

\* click on toggleAudio: toggleAudio()
ToggleAudio ==
    /\ IF localStream # Null
       THEN LET assigned == NotOf(TracksEnabled)
            IN  /\ audioTrackEnabled' = AssignToTracks(audioTrackEnabled, assigned)
                /\ isAudioMuted' = ~assigned
                /\ lastStatus' = IF ~assigned THEN "Audio muted" ELSE "Audio unmuted"
       ELSE UNCHANGED <<audioTrackEnabled, isAudioMuted, lastStatus>>
    /\ lastOp' = Called("toggleAudio", Null)
    /\ UNCHANGED <<userMedia, localStream, videoTrackEnabled, isVideoStopped, statVars,
                   uiVars, pcState, monitors, timers, timerSeq, ticks, emitted, uncaught,
                   room, peerConnection, networkMonitor, isLowDataMode, tasks>>

\* click on toggleVideo: toggleVideo()
ToggleVideo ==
    /\ IF localStream # Null
       THEN LET assigned == NotOf(TracksEnabled)
            IN  /\ videoTrackEnabled' = AssignToTracks(videoTrackEnabled, assigned)
                /\ isVideoStopped' = ~assigned
                /\ lastStatus' = IF ~assigned THEN "Video stopped" ELSE "Video started"
       ELSE UNCHANGED <<videoTrackEnabled, isVideoStopped, lastStatus>>
    /\ lastOp' = Called("toggleVideo", Null)
    /\ UNCHANGED <<userMedia, localStream, audioTrackEnabled, isAudioMuted, statVars,
                   uiVars, pcState, monitors, timers, timerSeq, ticks, emitted, uncaught,
                   room, peerConnection, networkMonitor, isLowDataMode, tasks>>

\* enableLowDataMode() / disableLowDataMode(): the video track's flag they leave
SetLowDataVideo(stream, trackEnabled, low) ==
    IF stream # Null THEN AssignToTracks(trackEnabled, low) ELSE trackEnabled

\* low_data_mode messages emitted so far
LowDataMsgs == {i \in DOMAIN emitted : emitted[i].type = "low_data_mode"}

LowDataModeMsgBeforeFlip(low) == Msg("low_data_mode", GetCurrentRoom, 0, low)

\* toggleLowDataMode(): the message it emits when the flag was low
LowDataModeMsg(low) == Msg("low_data_mode", GetCurrentRoom, 0, ~low)

\* click on lowDataMode: toggleLowDataMode()
ToggleLowDataMode ==
    /\ Cardinality(LowDataMsgs) < MaxToggles
    /\ isLowDataMode' = ~isLowDataMode
    /\ emitted' = Append(emitted, LowDataModeMsg(isLowDataMode))
    /\ lastStatus' = IF isLowDataMode THEN "Video enabled - Normal mode"
                     ELSE "Low data mode enabled - Video disabled"
    /\ videoTrackEnabled' = SetLowDataVideo(localStream, videoTrackEnabled, isLowDataMode)
    /\ lastOp' = Called("toggleLowDataMode", Null)
    /\ UNCHANGED <<userMedia, localStream, audioTrackEnabled, isAudioMuted, isVideoStopped,
                   statVars, uiVars, pcState, monitors, timers, timerSeq, ticks, uncaught, room,
                   peerConnection, networkMonitor, tasks>>

\* click on endCall: endCall(), with the resetLowDataMode() it ends with
EndCall ==
    /\ LET r == StopNetworkMonitoring(monitors, timers, networkMonitor)
       IN  /\ monitors' = r.monitors
           /\ timers' = r.timers
           /\ networkMonitor' = r.networkMonitor
    /\ pcState' = ClosePeerConnection(pcState, peerConnection)
    /\ peerConnection' = Null
    /\ IF isLowDataMode
       THEN /\ isLowDataMode' = FALSE
            /\ emitted' = Append(emitted, LowDataModeMsg(TRUE))
       ELSE UNCHANGED <<isLowDataMode, emitted>>
    /\ videoTrackEnabled' = IF isLowDataMode
                            THEN SetLowDataVideo(localStream, videoTrackEnabled, TRUE)
                            ELSE videoTrackEnabled
    /\ lastStatus' = "Call ended"
    /\ lastOp' = Called("endCall", Null)
    /\ UNCHANGED <<userMedia, localStream, audioTrackEnabled, isAudioMuted, isVideoStopped,
                   statVars, uiVars, timerSeq, ticks, uncaught, room, tasks>>

\* onconnectionstatechange of connection p, which the browser moved to state s;
\* the handler reads this.peerConnection.connectionState
OnConnectionStateChange(p, s) ==
    /\ p \in DOMAIN pcState
    /\ pcState[p] # "closed"
    /\ s \in ConnStates \ {"closed", pcState[p]}
    /\ pcState' = [pcState EXCEPT ![p] = s]
    /\ IF peerConnection = Null
       THEN /\ uncaught' = uncaught \cup {"connectionstatechange"}
            /\ UNCHANGED lastStatus
       ELSE /\ lastStatus' =
                 IF pcState'[peerConnection] = "connected"
                 THEN "Call connected successfully!"
                 ELSE IF pcState'[peerConnection] = "failed"
                 THEN "Connection failed. Please try again."
                 ELSE lastStatus
            /\ UNCHANGED uncaught
    /\ UNCHANGED <<mediaVars, statVars, uiVars, monitors, timers, timerSeq, ticks, emitted, room,
                   peerConnection, networkMonitor, isLowDataMode, tasks, lastOp>>

\* the page after `new SimpleConfer()`
Init ==
    /\ pcState = <<>>
    /\ monitors = <<>>
    /\ timers = {}
    /\ timerSeq = 0
    /\ ticks = <<>>
    /\ emitted = <<>>
    /\ uncaught = {}
    /\ room = ""
    /\ peerConnection = Null
    /\ networkMonitor = Null
    /\ isLowDataMode = FALSE
    /\ tasks = <<>>
    /\ lastStatus = ""
    /\ lastOp = NoOp
    /\ InitPage
    /\ snapshot = <<>>
    /\ metrics = NoMetrics
    /\ InitMedia

\* the life cycle of calls: the calls, their continuations and the browser's
\* connection state events
Next ==
    \/ StartCall
    \/ HandleOffer
    \/ EndCall
    \/ \E i \in DOMAIN tasks : TaskResolved(i)
    \/ \E i \in DOMAIN tasks : TaskRejected(i)
    \/ \E p \in DOMAIN pcState, s \in ConnStates : OnConnectionStateChange(p, s)

Spec == Init /\ [][Next]_vars

(***************************************************************************)
(* Calls and classification events: the server sends quality_update at any *)
(* time between the clicks.                                                *)
(***************************************************************************)
NextEvents ==
    \/ StartCall
    \/ HandleOffer
    \/ EndCall
    \/ \E data \in EventValues : QualityUpdateEarly(data)

SpecEvents == Init /\ [][NextEvents]_vars

\* C18: after any sequence of startCall, handleOffer and endCall, an event
\* that is logged adds exactly one entry to the network log.
C18_OneLinePerEvent ==
    [][logged' # logged => logged' = logged + 1]_vars

(***************************************************************************)
(* Claims about the application (checked under Spec).                      *)
(***************************************************************************)
\* monitors that own an active timer
Sampling == {m \in DOMAIN monitors : TimersOf(m) # {}}

\* C6: whenever the application holds a peer connection, a running monitor
\* samples that same connection, and every connection created has a monitor of
\* its own.
C6_MonitorFollowsConnection ==
    /\ peerConnection # Null =>
         /\ networkMonitor # Null
         /\ monitors[networkMonitor].isMonitoring
         /\ monitors[networkMonitor].peerConnection = peerConnection
    /\ \A p \in DOMAIN pcState :
         \E m \in DOMAIN monitors : monitors[m].peerConnection = p

\* C7: after endCall, until the next startCall or handleOffer, no monitor timer
\* is active and networkMonitor and peerConnection are null.
C7_TeardownStopsSampling ==
    lastOp.name = "endCall" =>
        /\ timers = {}
        /\ networkMonitor = Null
        /\ peerConnection = Null

\* endCall has run after a startCall and a handleOffer, one of them still
\* suspended at an await, and a monitor had been created
C7_Witness ==
    /\ lastOp.name = "endCall"
    /\ Len(monitors) >= 1
    /\ \E i, j \in DOMAIN tasks :
          /\ tasks[i].kind = "startCall"
          /\ tasks[j].kind = "handleOffer"
          /\ Suspended(j)

\* C8: of all the monitors ever created at most one has an active timer.
C8_OneSamplingMonitor == Cardinality(Sampling) <= 1

\* a second monitor, created after the first was stopped, is sampling
C8_Witness ==
    /\ Len(monitors) = 2
    /\ Sampling = {2}
    /\ ~monitors[1].isMonitoring

\* C19: while endCall is the last call made, no 'offer' or 'answer' is emitted
\* and the status does not turn to 'Calling...': the startCall and handleOffer
\* invocations that were suspended when endCall ran send nothing afterwards.
C19_NoSignalingAfterEndCall ==
    [][(lastOp.name = "endCall" /\ lastOp'.name = "endCall") =>
          /\ \A n \in (Len(emitted) + 1)..Len(emitted') :
                emitted'[n].type \notin {"offer", "answer"}
          /\ (lastStatus' = "Calling..." => lastStatus = "Calling...")]_vars

(***************************************************************************)
(* Low data mode: clicks on lowDataMode between the calls.                 *)
(***************************************************************************)
NextLowData ==
    \/ StartCall
    \/ EndCall
    \/ ToggleLowDataMode
    \/ \E r \in RoomValues : TypeRoom(r)

SpecLowData == Init /\ [][NextLowData]_vars

\* the newest low_data_mode message
LastLowDataMsg == emitted[CHOOSE i \in LowDataMsgs : \A j \in LowDataMsgs : j <= i]

\* C20: toggleLowDataMode flips isLowDataMode and emits exactly one
\* low_data_mode message carrying the new flag; endCall leaves the flag off and
\* emits one low_data_mode message with enabled = false exactly when the mode
\* was on; so the newest low_data_mode message always carries the current flag.
C20_LowDataConsistent ==
    /\ [][IsCall("toggleLowDataMode") =>
            /\ isLowDataMode' = ~isLowDataMode
            /\ emitted' = Append(emitted,
                  Msg("low_data_mode", GetCurrentRoom, 0, isLowDataMode'))]_vars
    /\ [][IsCall("endCall") =>
            /\ ~isLowDataMode'
            /\ emitted' = IF isLowDataMode
                          THEN Append(emitted, Msg("low_data_mode", GetCurrentRoom, 0, FALSE))
                          ELSE emitted]_vars
    /\ [](IF LowDataMsgs = {} THEN ~isLowDataMode
          ELSE LastLowDataMsg.enabled = isLowDataMode)

\* endCall has just switched the mode off: the message of the toggle that had
\* switched it on is followed by the one endCall sent
C20_Witness ==
    /\ lastOp.name = "endCall"
    /\ Len(emitted) >= 2
    /\ emitted[Len(emitted)] = Msg("low_data_mode", GetCurrentRoom, 0, FALSE)
    /\ emitted[Len(emitted) - 1].type = "low_data_mode"
    /\ emitted[Len(emitted) - 1].enabled
    /\ ~isLowDataMode

(***************************************************************************)
(* Media controls: the answer to the camera / microphone request and the   *)
(* clicks on toggleAudio, toggleVideo, lowDataMode and endCall.            *)
(***************************************************************************)
NextMedia ==
    \/ UserMediaGranted
    \/ UserMediaDenied
    \/ ToggleAudio
    \/ ToggleVideo
    \/ ToggleLowDataMode
    \/ EndCall

SpecMedia == Init /\ [][NextMedia]_vars

\* C21: with a local stream, toggleAudio inverts enabled of the audio track and
\* leaves isAudioMuted the negation of the new flag, and toggleVideo does the
\* same with the video track and isVideoStopped; so one call from unmuted mutes
\* and a second call restores.
C21_ToggleAlternates ==
    /\ [][(IsCall("toggleAudio") /\ localStream # Null) =>
            /\ audioTrackEnabled' = ~audioTrackEnabled
            /\ isAudioMuted' = ~audioTrackEnabled']_vars
    /\ [][(IsCall("toggleVideo") /\ localStream # Null) =>
            /\ videoTrackEnabled' = ~videoTrackEnabled
            /\ isVideoStopped' = ~videoTrackEnabled']_vars

====
